---- MODULE Spec2Model ----
(***************************************************************************)
(* A model of the pooja_editor terminal text editor:                       *)
(*   src/pooja_core_editor.py   the editing engine and its run loop        *)
(*   src/plugins/plugin_save.py the shipped save extension (Ctrl+S)        *)
(*                                                                         *)
(* Text is modelled as sequences of character codes, so a line, a file     *)
(* name and a file's content are all of type Seq(Nat).  Python's 0-based   *)
(* indices are kept in the state (cursor_row, cursor_col, ...); the        *)
(* operators Line and Slice translate them to TLA+'s 1-based sequences.    *)
(***************************************************************************)
EXTENDS Integers, Sequences, FiniteSets, TLC

\* ------------------------------------------------------------------ bounds
\* The buffer never grows beyond MaxFileSize characters, counted as the
\* save action writes them (each line and its newline): a key event that
\* would exceed it is not offered by the environment.
MaxFileSize == 3

\* --------------------------------------------------------------- key codes
KEY_DOWN == 258
KEY_UP == 259
KEY_LEFT == 260
KEY_RIGHT == 261
KEY_HOME == 262
KEY_BACKSPACE == 263
KEY_DC == 330
KEY_NPAGE == 338
KEY_PPAGE == 339
KEY_ENTER == 343
KEY_END == 360
KEY_RESIZE == 410
CTRL_Q == 17
ctrl_s_key_code == 19
\* An escape key code: matched by no branch of handle_key_press.
KEY_UNKNOWN == 27

\* character codes
LF == 10
CR == 13
SPACE == 32
CharA == 97

\* Python's None, for the optional strings (filename, a prompt's answer).
\* No string holds a negative character code.
None == << -1 >>

\* lengths of the two prompt messages
QuitPromptLen == 37
SaveAsPromptLen == 9

\* ------------------------------------------------------------ small helpers
Min(a, b) == IF a < b THEN a ELSE b
Max(a, b) == IF a > b THEN a ELSE b

\* lines[r] for a 0-based r
Line(ls, r) == ls[r + 1]
\* s[a:b] for 0 <= a, with Python's clamping of b
Slice(s, a, b) == SubSeq(s, a + 1, Min(b, Len(s)))
\* s[a:]
SliceFrom(s, a) == SubSeq(s, a + 1, Len(s))
\* the list with lines[r] replaced
SetLine(ls, r, s) == [ls EXCEPT ![r + 1] = s]
\* the list after lines.pop(r)
Pop(ls, r) == SubSeq(ls, 1, r) \o SubSeq(ls, r + 2, Len(ls))
\* the list after lines.insert(r, s)
Insert(ls, r, s) == SubSeq(ls, 1, r) \o << s >> \o SubSeq(ls, r + 1, Len(ls))

\* A status message: the text of the f-string with its two holes.
Msg(text, n, name) == [text |-> text, n |-> n, name |-> name]
PlainMsg(text) == Msg(text, 0, << >>)

\* ---------------------------------------------------------------- the disk
\* One regular file name "f" (present or not) and one directory "d".  The
\* program reads a file only at startup, so what the disk holds is an input
\* of the startup (d: the content of each file name, None for no such
\* file); what the save action writes is an output, kept in the variable
\* written.
NameF == << 102 >>
NameD == << 100 >>
FileNames == {NameF}

\* os.path.isdir, os.path.exists
isdir(filename) == filename = NameD
exists(d, filename) ==
    \/ isdir(filename)
    \/ filename \in DOMAIN d /\ d[filename] # None

\* A write of the save action: the file name and the text written.
Write(name, content) == [name |-> name, content |-> content]
NoWrite == Write(None, << >>)

\* str.strip(): leading and trailing blanks removed
RECURSIVE lstrip(_)
lstrip(s) == IF s # << >> /\ Head(s) = SPACE THEN lstrip(Tail(s)) ELSE s
RECURSIVE rstrip(_)
rstrip(s) ==
    IF s # << >> /\ s[Len(s)] = SPACE THEN rstrip(SubSeq(s, 1, Len(s) - 1)) ELSE s
strip(s) == rstrip(lstrip(s))

\* str.lower() on ASCII
lower(s) == [i \in 1..Len(s) |-> IF s[i] >= 65 /\ s[i] <= 90 THEN s[i] + 32 ELSE s[i]]

\* Reading in text mode (universal newlines): "\r\n" and a lone "\r" are
\* read as "\n".
RECURSIVE UniversalNewlines(_)
UniversalNewlines(bytes) ==
    IF bytes = << >> THEN << >>
    ELSE IF Head(bytes) = CR
         THEN IF Len(bytes) >= 2 /\ bytes[2] = LF
              THEN << LF >> \o UniversalNewlines(SubSeq(bytes, 3, Len(bytes)))
              ELSE << LF >> \o UniversalNewlines(Tail(bytes))
         ELSE << Head(bytes) >> \o UniversalNewlines(Tail(bytes))

\* "for line in f": the text cut after each newline; a last piece without a
\* newline is a line too.  cur is the piece being collected.
RECURSIVE IterLines(_, _)
IterLines(text, cur) ==
    IF text = << >> THEN (IF cur = << >> THEN << >> ELSE << cur >>)
    ELSE IF Head(text) = LF
         THEN << cur \o << LF >> >> \o IterLines(Tail(text), << >>)
         ELSE IterLines(Tail(text), cur \o << Head(text) >>)

\* line.rstrip('\n\r')
RECURSIVE rstrip_newlines(_)
rstrip_newlines(s) ==
    IF s # << >> /\ (s[Len(s)] = LF \/ s[Len(s)] = CR)
    THEN rstrip_newlines(SubSeq(s, 1, Len(s) - 1))
    ELSE s

\* "[line.rstrip('\n\r') for line in f if line.strip()]": blank lines are
\* skipped.
read_lines_skip_blank(bytes) ==
    LET raw == IterLines(UniversalNewlines(bytes), << >>)
    IN  SelectSeq([i \in 1..Len(raw) |-> rstrip_newlines(raw[i])],
                  LAMBDA l : l # << >>)

\* [line.rstrip('\n\r') for line in f]
read_lines(bytes) ==
    LET raw == IterLines(UniversalNewlines(bytes), << >>)
    IN  [i \in 1..Len(raw) |-> rstrip_newlines(raw[i])]

\* "f.write('\n'.join(lines_to_save))": no newline after the last line.
RECURSIVE write_lines_joined(_)
write_lines_joined(ls) ==
    IF ls = << >> THEN << >>
    ELSE IF Len(ls) = 1 THEN Head(ls)
    ELSE Head(ls) \o << LF >> \o write_lines_joined(Tail(ls))

\* "for line in lines_to_save: f.write(line + '\n')"
RECURSIVE write_lines(_)
write_lines(ls) ==
    IF ls = << >> THEN << >> ELSE Head(ls) \o << LF >> \o write_lines(Tail(ls))

\* --------------------------------------------------------- the editor state
\* editor_state is the dictionary of setup_editor_state (without "screen",
\* which is the variable screen below).
VARIABLES
    editor_state,   \* the editor's dictionary
    screen,         \* the curses window: what getmaxyx() returns now
    written,        \* the file written by the last turn of the loop, or NoWrite
    pc,             \* where the program is: plugins, getch (waiting for a key), stopped
    saved_lines,    \* history: lines as of the last successful load or save
    plugins         \* history: the plugin files found and the register() calls done

vars == << editor_state, screen, written, pc, saved_lines, plugins >>

\* Terminal sizes (height, width): one too low to draw, one too narrow to
\* prompt, one that scrolls in both directions, one roomy.
GridSizes == { << 1, 12 >>, << 2, 1 >>, << 2, 2 >>, << 3, 12 >> }

\* The dictionary literal at the top of setup_editor_state.
NewState ==
    [ filename        |-> None,
      lines           |-> << << >> >>,
      cursor_row      |-> 0,
      cursor_col      |-> 0,
      top_screen_line |-> 0,
      left_screen_col |-> 0,
      screen_height   |-> 0,
      screen_width    |-> 0,
      key_actions     |-> [k \in {} |-> "do_save_file"],
      status_message  |-> PlainMsg("SimpleEdit | Ctrl+Q: Quit"),
      is_dirty        |-> FALSE ]

ResetView(es) ==
    [es EXCEPT !.cursor_row = 0, !.cursor_col = 0,
               !.top_screen_line = 0, !.left_screen_col = 0]

\* load_file_into_editor whose except branch keeps the file name and does
\* not reset the view.
load_file_into_editor_keeps_name(es, filename, d, read_fails) ==
    IF exists(d, filename) /\ ~isdir(filename)
    THEN IF read_fails
         THEN [es EXCEPT !.lines = << << >> >>,
                         !.status_message = Msg("Error loading", 0, filename),
                         !.filename = filename]
         ELSE LET ls == read_lines(d[filename])
              IN  ResetView([es EXCEPT
                      !.lines = IF ls = << >> THEN << << >> >> ELSE ls,
                      !.filename = filename,
                      !.is_dirty = FALSE,
                      !.status_message = Msg("Opened", 0, filename)])
    ELSE IF isdir(filename)
    THEN ResetView([es EXCEPT
             !.status_message = Msg("Error: is a folder.", 0, filename),
             !.filename = None,
             !.lines = << << >> >>,
             !.is_dirty = FALSE])
    ELSE ResetView([es EXCEPT
             !.filename = filename,
             !.lines = << << >> >>,
             !.is_dirty = FALSE,
             !.status_message = Msg("New File", 0, filename)])

\* load_file_into_editor; read_fails: open() or the read raises.
load_file_into_editor(es, filename, d, read_fails) ==
    IF exists(d, filename) /\ ~isdir(filename)
    THEN IF read_fails
         THEN ResetView([es EXCEPT
                  !.lines = << << >> >>,
                  !.status_message = Msg("Error loading", 0, filename),
                  !.filename = None,
                  !.is_dirty = FALSE])
         ELSE LET ls == read_lines(d[filename])
              IN  ResetView([es EXCEPT
                      !.lines = IF ls = << >> THEN << << >> >> ELSE ls,
                      !.filename = filename,
                      !.is_dirty = FALSE,
                      !.status_message = Msg("Opened", 0, filename)])
    ELSE IF isdir(filename)
    THEN ResetView([es EXCEPT
             !.status_message = Msg("Error: is a folder.", 0, filename),
             !.filename = None,
             !.lines = << << >> >>,
             !.is_dirty = FALSE])
    ELSE ResetView([es EXCEPT
             !.filename = filename,
             !.lines = << << >> >>,
             !.is_dirty = FALSE,
             !.status_message = Msg("New File", 0, filename)])

setup_editor_state(filename, d, read_fails) ==
    IF filename # None /\ filename # << >>
    THEN LET es == load_file_into_editor(NewState, filename, d, read_fails)
         IN  IF es.filename # None /\ es.filename # << >>
             THEN [es EXCEPT !.status_message = Msg("File", 0, filename)]
             ELSE es
    ELSE NewState

\* What the file "f" may hold at startup: nothing, "a\n", "a\r\n\n".
InitialFiles == { << >>, << CharA, LF >>, << CharA, CR, LF, LF >> }

\* Startup: (command line argument, content of "f", whether reading fails)
Startups ==
    {<< None, None, FALSE >>, << NameD, None, FALSE >>, << NameF, None, FALSE >>}
    \cup {<< NameF, c, FALSE >> : c \in InitialFiles}
    \cup {<< NameF, << CharA, LF >>, TRUE >>}

\* The state after setup_editor_state, for a terminal of one of sizes.
Start(sizes) ==
    \E s \in Startups, g \in sizes:
        /\ editor_state = setup_editor_state(s[1], [n \in FileNames |-> s[2]], s[3])
        /\ screen = [height |-> g[1], width |-> g[2]]
        /\ written = NoWrite
        /\ saved_lines = editor_state.lines
        /\ pc = "plugins"

\* plugins where the history of the register() calls is not kept.
Unlisted == [files |-> << >>, registered |-> << >>]

Init == Start(GridSizes) /\ plugins = Unlisted

\* ------------------------------------------------- extension registration
\* tell_core_about_key: key_actions[key_code] = action_function (the last
\* registration for a key wins).
tell_core_about_key(es, key_code, action_function) ==
    [es EXCEPT !.key_actions =
        [k \in DOMAIN es.key_actions \cup {key_code} |->
            IF k = key_code THEN action_function ELSE es.key_actions[k]]]

\* plugin_save.register: Ctrl+S runs do_save_file.
register(es) == tell_core_about_key(es, ctrl_s_key_code, "do_save_file")

\* A second extension the plugins directory may hold: it binds the quit key,
\* an arrow key and an editing key to the save action as well.
ShadowKeys == {CTRL_Q, KEY_UP, KEY_BACKSPACE}
RECURSIVE BindAll(_, _)
BindAll(es, keys) ==
    IF keys = {} THEN es
    ELSE LET k == CHOOSE x \in keys : TRUE
         IN  BindAll(tell_core_about_key(es, k, "do_save_file"), keys \ {k})

\* find_and_load_plugins, every register() returning normally.
find_and_load_plugins(es, with_shadowing) ==
    IF with_shadowing THEN BindAll(register(es), ShadowKeys) ELSE register(es)

\* -------------------------------------------------------- status helpers
show_message_in_status(es, message) == [es EXCEPT !.status_message = message]

\* mark_file_as_changed with its test inverted: the flag is never raised.
mark_file_as_changed_inverted(es) ==
    IF es.is_dirty THEN [es EXCEPT !.is_dirty = TRUE] ELSE es

mark_file_as_changed(es) ==
    IF ~es.is_dirty THEN [es EXCEPT !.is_dirty = TRUE] ELSE es

mark_file_as_saved(es) == [es EXCEPT !.is_dirty = FALSE]

set_filename(es, name) == [es EXCEPT !.filename = name]

\* ------------------------------------------------------------- the screen
\* What show_editor_on_screen stores: the window's size as of this draw.
show_editor_on_screen(es, scr) ==
    [es EXCEPT !.screen_height = scr.height, !.screen_width = scr.width]

\* The number of characters of a status message as Python formats it: the
\* fixed text, the file name, the number of lines, and for an IOError the
\* text of the error ("[Errno 13] Permission denied: '<name>'").
message_len(m) ==
    LET name == IF m.name = None THEN 0 ELSE Len(m.name)
        digits == IF m.n < 10 THEN 1 ELSE 2
        errno == 32 + name
    IN  CASE m.text = "SimpleEdit | Ctrl+Q: Quit" -> 25
          [] m.text = "File" -> 21 + name
          [] m.text = "Opened" -> 8 + name
          [] m.text = "Error: is a folder." -> 22 + name
          [] m.text = "New File" -> 25 + name
          [] m.text = "Error loading" -> 16 + name + errno
          [] m.text = "Saved lines to" -> 16 + digits + name
          [] m.text = "Error saving! Could not write to file" -> 39 + errno
          [] m.text = "Save cancelled." -> 15
          [] m.text = "Quit cancelled." -> 15

\* The dirty marker " *".
MarkerLen == 2

\* No status bar: the window is too small to draw in.
NoStatusBar == [drawn |-> FALSE, message |-> 0, marker |-> 0, spaces |-> 0]

\* The status bar show_editor_on_screen draws on the last screen line, for
\* the size this draw has stored: how many characters of the message, of
\* the marker and of the padding reach the screen.
draw_status_bar(es) ==
    IF es.screen_height <= 1 \/ es.screen_width <= 0 THEN NoStatusBar
    ELSE
    LET message == message_len(es.status_message)
        status_text == Min(message + (IF es.is_dirty THEN MarkerLen ELSE 0),
                           es.screen_width)
        status_line == status_text + Max(0, es.screen_width - 1 - status_text)
        shown == Min(status_line, es.screen_width - 1)
    IN  [drawn   |-> TRUE,
         message |-> Min(message, shown),
         marker  |-> Min(status_text, shown) - Min(message, shown),
         spaces  |-> shown - Min(status_text, shown)]

\* Where show_editor_on_screen puts the terminal's cursor, for the size this
\* draw has stored; None when the window is too small to draw in.
draw_cursor(es) ==
    IF es.screen_height <= 1 \/ es.screen_width <= 0 THEN None
    ELSE
    LET display_height == es.screen_height - 1
        screen_cursor_row == es.cursor_row - es.top_screen_line
        screen_cursor_col == es.cursor_col - es.left_screen_col
    IN  << Max(0, Min(screen_cursor_row, display_height - 1)),
           Max(0, Min(screen_cursor_col, es.screen_width - 1)) >>

\* move_cursor_and_scroll scrolling one line and one column short when the
\* cursor is past the bottom or the right edge.
move_cursor_and_scroll_short(es) ==
    IF es.screen_height <= 1 \/ es.screen_width <= 0 THEN es
    ELSE
    LET display_height == es.screen_height - 1
        screen_width == es.screen_width
        top == IF es.cursor_row < es.top_screen_line
               THEN es.cursor_row
               ELSE IF es.cursor_row >= es.top_screen_line + display_height
               THEN es.cursor_row - display_height
               ELSE es.top_screen_line
        left == IF es.cursor_col < es.left_screen_col
                THEN es.cursor_col
                ELSE IF es.cursor_col >= es.left_screen_col + screen_width
                THEN es.cursor_col - screen_width
                ELSE es.left_screen_col
    IN  [es EXCEPT !.top_screen_line = Max(0, top),
                   !.left_screen_col = Max(0, left)]

\* move_cursor_and_scroll that scrolls down and right one window at a time.
move_cursor_and_scroll_by_page(es) ==
    IF es.screen_height <= 1 \/ es.screen_width <= 0 THEN es
    ELSE
    LET display_height == es.screen_height - 1
        screen_width == es.screen_width
        top == IF es.cursor_row < es.top_screen_line
               THEN es.cursor_row
               ELSE IF es.cursor_row >= es.top_screen_line + display_height
               THEN es.top_screen_line + display_height
               ELSE es.top_screen_line
        left == IF es.cursor_col < es.left_screen_col
                THEN es.cursor_col
                ELSE IF es.cursor_col >= es.left_screen_col + screen_width
                THEN es.left_screen_col + screen_width
                ELSE es.left_screen_col
    IN  [es EXCEPT !.top_screen_line = Max(0, top),
                   !.left_screen_col = Max(0, left)]

\* move_cursor_and_scroll
move_cursor_and_scroll(es) ==
    IF es.screen_height <= 1 \/ es.screen_width <= 0 THEN es
    ELSE
    LET display_height == es.screen_height - 1
        screen_width == es.screen_width
        top == IF es.cursor_row < es.top_screen_line
               THEN es.cursor_row
               ELSE IF es.cursor_row >= es.top_screen_line + display_height
               THEN es.cursor_row - display_height + 1
               ELSE es.top_screen_line
        left == IF es.cursor_col < es.left_screen_col
                THEN es.cursor_col
                ELSE IF es.cursor_col >= es.left_screen_col + screen_width
                THEN es.cursor_col - screen_width + 1
                ELSE es.left_screen_col
    IN  [es EXCEPT !.top_screen_line = Max(0, top),
                   !.left_screen_col = Max(0, left)]

\* ------------------------------------------------------------- the prompt
\* ask_user_for_input's return value.  typed is what the user would type
\* (None: the wait is interrupted, or curses fails); getstr returns at most
\* max_len characters of it.  The status message is restored on the way
\* out, so the editor state is the same after the call.
ask_user_for_input(es, prompt_len, typed) ==
    LET height == es.screen_height
        width == es.screen_width
        prompt_display_len == Min(prompt_len, Max(0, width - 1))
        input_start_col == IF prompt_display_len >= width - 1
                           THEN width - 2
                           ELSE prompt_display_len
        max_len == Max(0, width - input_start_col - 1)
    IN  IF height <= 1 \/ width <= 1 THEN None
        ELSE IF typed = None THEN None
        ELSE Slice(typed, 0, max_len)

\* "if not x" for an optional string
Falsy(x) == x = None \/ x = << >>

\* ------------------------------------------------------- the save action
\* How open(current_filename, 'w') and the writes end: "ok", or "IOError"
\* (raised before the file is changed).
WriteOutcomes == {"ok", "IOError"}

\* What the save action leaves: the state, and the file it wrote (NoWrite
\* unless the write completed).
Result(es, w) == [state |-> es, written |-> w]

\* write_file with mark_as_saved after the try block instead of inside it.
write_file_always_saved(es, current_filename, write) ==
    IF write = "ok"
    THEN Result(
           mark_file_as_saved(
             show_message_in_status(es,
               Msg("Saved lines to", Len(es.lines), current_filename))),
           Write(current_filename, write_lines(es.lines)))
    ELSE Result(
           mark_file_as_saved(
             show_message_in_status(es,
               Msg("Error saving! Could not write to file", 0, current_filename))),
           NoWrite)

\* The try block of do_save_file: the state and the file written.
write_file(es, current_filename, write) ==
    IF write = "ok"
    THEN Result(
           mark_file_as_saved(
             show_message_in_status(es,
               Msg("Saved lines to", Len(es.lines), current_filename))),
           Write(current_filename, write_lines(es.lines)))
    ELSE Result(
           show_message_in_status(es,
             Msg("Error saving! Could not write to file", 0, current_filename)),
           NoWrite)

\* do_save_file marking the file saved when the save is cancelled.
do_save_file_cancel_clean(es, typed, write) ==
    IF Falsy(es.filename)
    THEN LET filename_from_user == ask_user_for_input(es, SaveAsPromptLen, typed)
         IN  IF filename_from_user = None \/ strip(filename_from_user) = << >>
             THEN Result(mark_file_as_saved(
                           show_message_in_status(es, PlainMsg("Save cancelled."))),
                         NoWrite)
             ELSE LET current_filename == strip(filename_from_user)
                  IN  IF isdir(current_filename)
                      THEN Result(
                             set_filename(
                               show_message_in_status(es,
                                 Msg("Error: is a folder.", 0, current_filename)),
                               None),
                             NoWrite)
                      ELSE write_file(set_filename(es, current_filename),
                                      current_filename, write)
    ELSE write_file(es, es.filename, write)

\* do_save_file.  (core_tools holds every tool after register, so the
\* missing-tools branch is not taken.)
do_save_file(es, typed, write) ==
    IF Falsy(es.filename)
    THEN LET filename_from_user == ask_user_for_input(es, SaveAsPromptLen, typed)
         IN  IF filename_from_user = None \/ strip(filename_from_user) = << >>
             THEN Result(show_message_in_status(es, PlainMsg("Save cancelled.")), NoWrite)
             ELSE LET current_filename == strip(filename_from_user)
                  IN  IF isdir(current_filename)
                      THEN Result(
                             set_filename(
                               show_message_in_status(es,
                                 Msg("Error: is a folder.", 0, current_filename)),
                               None),
                             NoWrite)
                      ELSE write_file(set_filename(es, current_filename),
                                      current_filename, write)
    ELSE write_file(es, es.filename, write)

\* --------------------------------------------------------- key dispatch
BackspaceKeys == {KEY_BACKSPACE, 127, 8}
EnterKeys == {KEY_ENTER, 10, 13}

\* What a branch of handle_key_press leaves: the state and whether
\* action_was_taken.
Branch(es, taken) == [state |-> es, action_was_taken |-> taken]

\* key_up without the snap of the column to the shorter line.
key_up_no_snap(es) ==
    IF es.cursor_row > 0
    THEN Branch([es EXCEPT !.cursor_row = es.cursor_row - 1], TRUE)
    ELSE Branch(es, FALSE)

\* elif key_pressed == curses.KEY_UP
key_up(es) ==
    LET lines == es.lines
        row == es.cursor_row
        col == es.cursor_col
    IN  IF row > 0
        THEN Branch([es EXCEPT !.cursor_row = row - 1,
                               !.cursor_col = Min(col, Len(Line(lines, row - 1)))],
                    TRUE)
        ELSE Branch(es, FALSE)

\* key_down without the snap of the column to the shorter line.
key_down_no_snap(es) ==
    IF es.cursor_row < Len(es.lines) - 1
    THEN Branch([es EXCEPT !.cursor_row = es.cursor_row + 1], TRUE)
    ELSE Branch(es, FALSE)

\* elif key_pressed == curses.KEY_DOWN
key_down(es) ==
    LET lines == es.lines
        row == es.cursor_row
        col == es.cursor_col
    IN  IF row < Len(lines) - 1
        THEN Branch([es EXCEPT !.cursor_row = row + 1,
                               !.cursor_col = Min(col, Len(Line(lines, row + 1)))],
                    TRUE)
        ELSE Branch(es, FALSE)

\* elif key_pressed == curses.KEY_LEFT
key_left(es) ==
    LET lines == es.lines
        row == es.cursor_row
        col == es.cursor_col
    IN  IF col > 0
        THEN Branch([es EXCEPT !.cursor_col = col - 1], TRUE)
        ELSE IF row > 0
        THEN Branch([es EXCEPT !.cursor_row = row - 1,
                               !.cursor_col = Len(Line(lines, row - 1))],
                    TRUE)
        ELSE Branch(es, FALSE)

\* key_right without the elif that wraps to the next line.
key_right_no_wrap(es) ==
    IF es.cursor_col < Len(Line(es.lines, es.cursor_row))
    THEN Branch([es EXCEPT !.cursor_col = es.cursor_col + 1], TRUE)
    ELSE Branch(es, FALSE)

\* elif key_pressed == curses.KEY_RIGHT
key_right(es) ==
    LET lines == es.lines
        row == es.cursor_row
        col == es.cursor_col
    IN  IF col < Len(Line(lines, row))
        THEN Branch([es EXCEPT !.cursor_col = col + 1], TRUE)
        ELSE IF row < Len(lines) - 1
        THEN Branch([es EXCEPT !.cursor_row = row + 1, !.cursor_col = 0], TRUE)
        ELSE Branch(es, FALSE)

\* key_home that marks the file as changed.
key_home_marks_changed(es) ==
    Branch(mark_file_as_changed([es EXCEPT !.cursor_col = 0]), TRUE)

\* elif key_pressed == curses.KEY_HOME
key_home(es) == Branch([es EXCEPT !.cursor_col = 0], TRUE)

\* elif key_pressed == curses.KEY_END
key_end(es) ==
    Branch([es EXCEPT !.cursor_col = Len(Line(es.lines, es.cursor_row))], TRUE)

\* key_page_up with the whole screen height as the page, the status row
\* included.
key_page_up_full_height(es) ==
    LET lines == es.lines
        row == es.cursor_row
        col == es.cursor_col
    IN  IF es.screen_height > 1
        THEN LET display_height == es.screen_height
                 new_row == Max(0, row - display_height)
             IN  Branch([es EXCEPT
                     !.cursor_row = new_row,
                     !.top_screen_line = Max(0, es.top_screen_line - display_height),
                     !.cursor_col = Min(col, Len(Line(lines, new_row)))],
                   TRUE)
        ELSE Branch(es, FALSE)

\* elif key_pressed == curses.KEY_PPAGE
key_page_up(es) ==
    LET lines == es.lines
        row == es.cursor_row
        col == es.cursor_col
    IN  IF es.screen_height > 1
        THEN LET display_height == es.screen_height - 1
                 new_row == Max(0, row - display_height)
             IN  Branch([es EXCEPT
                     !.cursor_row = new_row,
                     !.top_screen_line = Max(0, es.top_screen_line - display_height),
                     !.cursor_col = Min(col, Len(Line(lines, new_row)))],
                   TRUE)
        ELSE Branch(es, FALSE)

\* elif key_pressed == curses.KEY_NPAGE
key_page_down(es) ==
    LET lines == es.lines
        row == es.cursor_row
        col == es.cursor_col
    IN  IF es.screen_height > 1
        THEN LET display_height == es.screen_height - 1
                 max_row == Len(lines) - 1
                 new_row == Min(max_row, row + display_height)
             IN  Branch([es EXCEPT
                     !.cursor_row = new_row,
                     !.top_screen_line =
                         Min(Max(0, Len(lines) - display_height),
                             es.top_screen_line + display_height),
                     !.cursor_col = Min(col, Len(Line(lines, new_row)))],
                   TRUE)
        ELSE Branch(es, FALSE)

\* key_backspace taking the column of a join after the append: the end of
\* the joined line.
key_backspace_join_at_end(es) ==
    LET lines == es.lines
        row == es.cursor_row
        col == es.cursor_col
    IN  IF col > 0
        THEN LET current_line == Line(lines, row)
             IN  Branch(mark_file_as_changed([es EXCEPT
                     !.lines = SetLine(lines, row,
                                 Slice(current_line, 0, col - 1)
                                 \o SliceFrom(current_line, col)),
                     !.cursor_col = col - 1]),
                   TRUE)
        ELSE IF row > 0
        THEN LET joined == Line(lines, row - 1) \o Line(lines, row)
             IN  Branch(mark_file_as_changed([es EXCEPT
                     !.cursor_row = row - 1,
                     !.cursor_col = Len(joined),
                     !.lines = SetLine(Pop(lines, row), row - 1, joined)]),
                   TRUE)
        ELSE Branch(es, FALSE)

\* elif key_pressed == curses.KEY_BACKSPACE or key_pressed == 127 or key_pressed == 8
key_backspace(es) ==
    LET lines == es.lines
        row == es.cursor_row
        col == es.cursor_col
    IN  IF col > 0
        THEN LET current_line == Line(lines, row)
             IN  Branch(mark_file_as_changed([es EXCEPT
                     !.lines = SetLine(lines, row,
                                 Slice(current_line, 0, col - 1)
                                 \o SliceFrom(current_line, col)),
                     !.cursor_col = col - 1]),
                   TRUE)
        ELSE IF row > 0
        THEN LET line_to_move == Line(lines, row)
                 popped == Pop(lines, row)
                 new_row == row - 1
             IN  Branch(mark_file_as_changed([es EXCEPT
                     !.cursor_row = new_row,
                     !.cursor_col = Len(Line(popped, new_row)),
                     !.lines = SetLine(popped, new_row,
                                 Line(popped, new_row) \o line_to_move)]),
                   TRUE)
        ELSE Branch(es, FALSE)

\* key_delete with mark_file_as_changed after the if and elif, not inside.
key_delete_always_dirty(es) ==
    LET lines == es.lines
        row == es.cursor_row
        col == es.cursor_col
        current_line == Line(lines, row)
    IN  IF col < Len(current_line)
        THEN Branch(mark_file_as_changed([es EXCEPT
                 !.lines = SetLine(lines, row,
                             Slice(current_line, 0, col)
                             \o SliceFrom(current_line, col + 1))]),
               TRUE)
        ELSE IF row < Len(lines) - 1
        THEN Branch(mark_file_as_changed([es EXCEPT
                 !.lines = SetLine(Pop(lines, row + 1), row,
                             current_line \o Line(lines, row + 1))]),
               TRUE)
        ELSE Branch(mark_file_as_changed(es), FALSE)

\* key_delete without mark_file_as_changed where it joins two lines.
key_delete_join_unmarked(es) ==
    LET lines == es.lines
        row == es.cursor_row
        col == es.cursor_col
        current_line == Line(lines, row)
    IN  IF col < Len(current_line)
        THEN Branch(mark_file_as_changed([es EXCEPT
                 !.lines = SetLine(lines, row,
                             Slice(current_line, 0, col)
                             \o SliceFrom(current_line, col + 1))]),
               TRUE)
        ELSE IF row < Len(lines) - 1
        THEN Branch([es EXCEPT
                 !.lines = SetLine(Pop(lines, row + 1), row,
                             current_line \o Line(lines, row + 1))],
               TRUE)
        ELSE Branch(es, FALSE)

\* elif key_pressed == curses.KEY_DC
key_delete(es) ==
    LET lines == es.lines
        row == es.cursor_row
        col == es.cursor_col
        current_line == Line(lines, row)
    IN  IF col < Len(current_line)
        THEN Branch(mark_file_as_changed([es EXCEPT
                 !.lines = SetLine(lines, row,
                             Slice(current_line, 0, col)
                             \o SliceFrom(current_line, col + 1))]),
               TRUE)
        ELSE IF row < Len(lines) - 1
        THEN LET line_to_join == Line(lines, row + 1)
                 popped == Pop(lines, row + 1)
             IN  Branch(mark_file_as_changed([es EXCEPT
                     !.lines = SetLine(popped, row,
                                 Line(popped, row) \o line_to_join)]),
                   TRUE)
        ELSE Branch(es, FALSE)

\* key_enter with "lines.insert(row, line_after_cursor)": the text after the
\* cursor goes above the current line.
key_enter_insert_above(es) ==
    LET lines == es.lines
        row == es.cursor_row
        col == es.cursor_col
        current_line == Line(lines, row)
        line_after_cursor == SliceFrom(current_line, col)
    IN  Branch(mark_file_as_changed([es EXCEPT
            !.lines = Insert(SetLine(lines, row, Slice(current_line, 0, col)),
                             row, line_after_cursor),
            !.cursor_row = row + 1,
            !.cursor_col = 0]),
          TRUE)

\* elif key_pressed == curses.KEY_ENTER or key_pressed in [10, 13]
key_enter(es) ==
    LET lines == es.lines
        row == es.cursor_row
        col == es.cursor_col
        current_line == Line(lines, row)
        line_after_cursor == SliceFrom(current_line, col)
    IN  Branch(mark_file_as_changed([es EXCEPT
            !.lines = Insert(SetLine(lines, row, Slice(current_line, 0, col)),
                             row + 1, line_after_cursor),
            !.cursor_row = row + 1,
            !.cursor_col = 0]),
          TRUE)

\* key_printable with "lines[row] = current_line + char_to_insert": the
\* character goes to the end of the line.
key_printable_append(es, key_pressed) ==
    Branch(mark_file_as_changed([es EXCEPT
        !.lines = SetLine(es.lines, es.cursor_row,
                    Line(es.lines, es.cursor_row) \o << key_pressed >>),
        !.cursor_col = es.cursor_col + 1]),
      TRUE)

\* elif 32 <= key_pressed <= 126
key_printable(es, key_pressed) ==
    LET lines == es.lines
        row == es.cursor_row
        col == es.cursor_col
        current_line == Line(lines, row)
    IN  Branch(mark_file_as_changed([es EXCEPT
            !.lines = SetLine(lines, row,
                        Slice(current_line, 0, col) \o << key_pressed >>
                        \o SliceFrom(current_line, col)),
            !.cursor_col = col + 1]),
          TRUE)

\* IsYes without the lower(): only a small y confirms.
IsYes_case_sensitive(confirm) == confirm = << 121 >>

\* "confirm and confirm.lower() == 'y'"
IsYes(confirm) == ~Falsy(confirm) /\ lower(confirm) = << 121 >>

\* What handle_key_press leaves: the state, its return value (TRUE: keep
\* running, FALSE: quit) and the file written meanwhile.
Handled(es, result, w) == [state |-> es, result |-> result, written |-> w]

\* The end of handle_key_press: "if action_was_taken:
\* move_cursor_and_scroll(editor_state)", then "return True".
Finish(b, w) ==
    Handled(IF b.action_was_taken THEN move_cursor_and_scroll(b.state) ELSE b.state,
            TRUE, w)

\* key_quit taking every answer but n for a yes: "confirm is not None and
\* confirm.lower() != 'n'".
key_quit_default_yes(es, typed) ==
    IF es.is_dirty
    THEN LET confirm == ask_user_for_input(es, QuitPromptLen, typed)
         IN  IF confirm # None /\ lower(confirm) # << 110 >>
             THEN Handled(es, FALSE, NoWrite)
             ELSE Finish(Branch(show_message_in_status(es, PlainMsg("Quit cancelled.")),
                                TRUE),
                         NoWrite)
    ELSE Handled(es, FALSE, NoWrite)

\* elif key_pressed == 17
key_quit(es, typed) ==
    IF es.is_dirty
    THEN LET confirm == ask_user_for_input(es, QuitPromptLen, typed)
         IN  IF IsYes(confirm)
             THEN Handled(es, FALSE, NoWrite)
             ELSE Finish(Branch(show_message_in_status(es, PlainMsg("Quit cancelled.")),
                                TRUE),
                         NoWrite)
    ELSE Handled(es, FALSE, NoWrite)

\* action_function(editor_state) for a registered action
call_action(action_function, es, typed, write) ==
    CASE action_function = "do_save_file" -> do_save_file(es, typed, write)

\* The built-in keys of handle_key_press, "2. Handle Built-in Editor Keys".
handle_builtin_key(es, key_pressed, typed) ==
    IF key_pressed = KEY_UP THEN Finish(key_up(es), NoWrite)
    ELSE IF key_pressed = KEY_DOWN THEN Finish(key_down(es), NoWrite)
    ELSE IF key_pressed = KEY_LEFT THEN Finish(key_left(es), NoWrite)
    ELSE IF key_pressed = KEY_RIGHT THEN Finish(key_right(es), NoWrite)
    ELSE IF key_pressed = KEY_HOME THEN Finish(key_home(es), NoWrite)
    ELSE IF key_pressed = KEY_END THEN Finish(key_end(es), NoWrite)
    ELSE IF key_pressed = KEY_PPAGE THEN Finish(key_page_up(es), NoWrite)
    ELSE IF key_pressed = KEY_NPAGE THEN Finish(key_page_down(es), NoWrite)
    ELSE IF key_pressed \in BackspaceKeys THEN Finish(key_backspace(es), NoWrite)
    ELSE IF key_pressed = KEY_DC THEN Finish(key_delete(es), NoWrite)
    ELSE IF key_pressed \in EnterKeys THEN Finish(key_enter(es), NoWrite)
    ELSE IF key_pressed = CTRL_Q THEN key_quit(es, typed)
    ELSE IF 32 <= key_pressed /\ key_pressed <= 126
         THEN Finish(key_printable(es, key_pressed), NoWrite)
    ELSE IF key_pressed = KEY_RESIZE THEN Finish(Branch(es, TRUE), NoWrite)
    ELSE Finish(Branch(es, FALSE), NoWrite)

\* handle_key_press with the quit key looked at before the extensions.
handle_key_press_quit_first(es, key_pressed, typed, write) ==
    IF key_pressed = CTRL_Q THEN key_quit(es, typed)
    ELSE IF key_pressed \in DOMAIN es.key_actions
    THEN LET r == call_action(es.key_actions[key_pressed], es, typed, write)
         IN  Finish(Branch(r.state, TRUE), r.written)
    ELSE handle_builtin_key(es, key_pressed, typed)

\* handle_key_press.  typed and write are what the environment answers if
\* the key leads to a prompt or to a write.
handle_key_press(es, key_pressed, typed, write) ==
    IF key_pressed \in DOMAIN es.key_actions
    THEN LET r == call_action(es.key_actions[key_pressed], es, typed, write)
         IN  Finish(Branch(r.state, TRUE), r.written)
    ELSE handle_builtin_key(es, key_pressed, typed)


\* ------------------------------------------------------------ the run loop
WithinBounds(es) == Len(write_lines(es.lines)) <= MaxFileSize

\* The keys the user presses besides the resize notification.
MoveKeys == {KEY_UP, KEY_DOWN, KEY_LEFT, KEY_RIGHT, KEY_HOME, KEY_END,
             KEY_PPAGE, KEY_NPAGE}
EditKeys == BackspaceKeys \cup {KEY_DC} \cup EnterKeys \cup {CharA}
Keys == MoveKeys \cup EditKeys \cup {CTRL_Q, ctrl_s_key_code, KEY_UNKNOWN}

\* What the user may type at the quit confirmation: y, Y, n, nothing, "ye";
\* None: the wait is interrupted.
QuitAnswers == { << 121 >>, << 89 >>, << 110 >>, << >>, << 121, 101 >>, None }
\* What the user may type at "Save As: ": f, d, a blank, " f", nothing.
SaveAnswers == { NameF, NameD, << SPACE >>, << SPACE >> \o NameF, << >>, None }

\* run_editor_loop up to its first wait for a key: find_and_load_plugins
\* (shadowings: whether the second extension may be there), then the first
\* draw.
LoadPlugins(shadowings) ==
    /\ pc = "plugins"
    /\ \E with_shadowing \in shadowings :
          editor_state' = show_editor_on_screen(
              find_and_load_plugins(editor_state, with_shadowing), screen)
    /\ pc' = "getch"
    /\ UNCHANGED << screen, written >>

\* One turn of the loop, from a key returned by getch to the next wait:
\* handle_key_press(key_pressed), and unless it returned False the draw of
\* the next turn, which stores the size the window has by then (scr).
Step(key_pressed, typed, write, scr) ==
    LET r == handle_key_press(editor_state, key_pressed, typed, write)
    IN  /\ WithinBounds(r.state)
        /\ editor_state' = IF r.result
                           THEN show_editor_on_screen(r.state, scr)
                           ELSE r.state
        /\ written' = r.written
        /\ pc' = IF r.result THEN "getch" ELSE "stopped"
        /\ screen' = scr

\* A key that leads to no prompt and to no extension.
PressKey ==
    /\ pc = "getch"
    /\ \E k \in Keys \ DOMAIN editor_state.key_actions :
          /\ ~(k = CTRL_Q /\ editor_state.is_dirty)
          /\ Step(k, None, "ok", screen)

\* The quit key on a dirty buffer: the confirmation is asked.
PressQuitDirty ==
    /\ pc = "getch"
    /\ CTRL_Q \notin DOMAIN editor_state.key_actions
    /\ editor_state.is_dirty
    /\ \E typed \in QuitAnswers : Step(CTRL_Q, typed, "ok", screen)

\* A key an extension has bound to the save action.  The user is asked for
\* a name only when the session has none.
PressBound ==
    /\ pc = "getch"
    /\ \E k \in DOMAIN editor_state.key_actions,
          typed \in (IF Falsy(editor_state.filename) THEN SaveAnswers ELSE {None}),
          write \in WriteOutcomes :
          /\ editor_state.key_actions[k] = "do_save_file"
          /\ Step(k, typed, write, screen)

\* The terminal is resized: the window has its new size when getch returns
\* KEY_RESIZE.
Resize ==
    /\ pc = "getch"
    /\ \E g \in GridSizes :
          Step(KEY_RESIZE, None, "ok", [height |-> g[1], width |-> g[2]])

\* "except KeyboardInterrupt" without the is_dirty test: "break" at once.
interrupt_at_getch_always_stops(es, typed) == Handled(es, FALSE, NoWrite)

\* "except KeyboardInterrupt" of run_editor_loop, an interrupt signal while
\* getch waits: a dirty buffer asks for the confirmation.  result FALSE is
\* "break", TRUE is "continue".
interrupt_at_getch(es, typed) ==
    IF es.is_dirty
    THEN LET confirm == ask_user_for_input(es, QuitPromptLen, typed)
         IN  IF IsYes(confirm)
             THEN Handled(es, FALSE, NoWrite)
             ELSE Handled(es, TRUE, NoWrite)
    ELSE Handled(es, FALSE, NoWrite)

\* An interrupt signal while getch waits; "continue" goes to the next draw.
Interrupt ==
    /\ pc = "getch"
    /\ \E typed \in (IF editor_state.is_dirty THEN QuitAnswers ELSE {None}) :
          LET r == interrupt_at_getch(editor_state, typed)
          IN  /\ editor_state' = IF r.result
                                 THEN show_editor_on_screen(r.state, screen)
                                 ELSE r.state
              /\ pc' = IF r.result THEN "getch" ELSE "stopped"
              /\ written' = r.written
    /\ UNCHANGED screen

\* The program as shipped: plugin_save is the only extension.  saved_lines
\* is not maintained here: it keeps the lines as loaded at startup; neither
\* is plugins.
Next ==
    \/ LoadPlugins({FALSE}) /\ UNCHANGED << saved_lines, plugins >>
    \/ PressKey /\ UNCHANGED << saved_lines, plugins >>
    \/ PressQuitDirty /\ UNCHANGED << saved_lines, plugins >>
    \/ PressBound /\ UNCHANGED << saved_lines, plugins >>
    \/ Resize /\ UNCHANGED << saved_lines, plugins >>
    \/ Interrupt /\ UNCHANGED << saved_lines, plugins >>

Spec == Init /\ [][Next]_vars

\* The program with or without the second extension in the plugins
\* directory, in a terminal of any of the sizes that is not resized.
NextExtensions ==
    \/ LoadPlugins(BOOLEAN) /\ UNCHANGED << saved_lines, plugins >>
    \/ PressKey /\ UNCHANGED << saved_lines, plugins >>
    \/ PressQuitDirty /\ UNCHANGED << saved_lines, plugins >>
    \/ PressBound /\ UNCHANGED << saved_lines, plugins >>
    \/ Interrupt /\ UNCHANGED << saved_lines, plugins >>

SpecExtensions == Init /\ [][NextExtensions]_vars

\* The program with the history variable saved_lines maintained: a turn
\* that wrote the file is a successful save.  To keep the history's cost
\* down the terminal is roomy and never resized and only the shipped
\* extension is there; neither lines nor is_dirty depend on the window.
RoomySizes == { << 3, 12 >> }

History ==
    saved_lines' = IF written' # NoWrite THEN editor_state'.lines ELSE saved_lines

InitHistory == Start(RoomySizes) /\ plugins = Unlisted

NextHistory ==
    \/ LoadPlugins({FALSE}) /\ UNCHANGED << saved_lines, plugins >>
    \/ PressKey /\ History /\ UNCHANGED plugins
    \/ PressQuitDirty /\ History /\ UNCHANGED plugins
    \/ PressBound /\ History /\ UNCHANGED plugins
    \/ Interrupt /\ UNCHANGED << saved_lines, plugins >>

SpecHistory == InitHistory /\ [][NextHistory]_vars

\* -------------------------------------------------- the plugins directory
\* What glob may find in the plugins directory, in the order it returns the
\* files: nothing, the shipped plugin_save, and with it plugin_faulty, an
\* extension that binds a key to an action that raises an exception.
PluginDirs ==
    { << >>, << "plugin_save" >>,
      << "plugin_save", "plugin_faulty" >>, << "plugin_faulty", "plugin_save" >> }
PluginNames == {"plugin_save", "plugin_faulty"}

\* plugin_module.register(editor_state, core_editor_tools)
register_of(module_name, es) ==
    IF module_name = "plugin_save" THEN register(es)
    ELSE tell_core_about_key(es, KEY_UNKNOWN, "do_fail")

\* The for loop of find_and_load_plugins with "continue" in the except
\* branch: a plugin that fails to load is skipped.
RECURSIVE load_plugin_files_skipping(_, _, _, _)
load_plugin_files_skipping(es, files, raising, done) ==
    IF files = << >> THEN [state |-> es, registered |-> done, exited |-> FALSE]
    ELSE IF Head(files) \in raising
    THEN load_plugin_files_skipping(es, Tail(files), raising, done)
    ELSE load_plugin_files_skipping(register_of(Head(files), es), Tail(files),
                                    raising, Append(done, Head(files)))

\* The for loop of find_and_load_plugins over the plugin files; raising:
\* the modules whose import or register() raises; done: the modules whose
\* register() has returned.  exited: curses.endwin() and sys.exit(1) of the
\* except branch.
RECURSIVE load_plugin_files(_, _, _, _)
load_plugin_files(es, files, raising, done) ==
    IF files = << >> THEN [state |-> es, registered |-> done, exited |-> FALSE]
    ELSE IF Head(files) \in raising
    THEN [state |-> es, registered |-> done, exited |-> TRUE]
    ELSE load_plugin_files(register_of(Head(files), es), Tail(files),
                           raising, Append(done, Head(files)))

\* run_editor_loop up to its first wait for a key, for the plugin files
\* found: find_and_load_plugins, which may exit, then the first draw.
LoadPluginFiles ==
    /\ pc = "plugins"
    /\ \E raising \in SUBSET PluginNames :
          LET r == load_plugin_files(editor_state, plugins.files, raising, << >>)
          IN  /\ editor_state' = IF r.exited THEN r.state
                                 ELSE show_editor_on_screen(r.state, screen)
              /\ pc' = IF r.exited THEN "exited" ELSE "getch"
              /\ plugins' = [plugins EXCEPT !.registered = r.registered]
    /\ UNCHANGED << screen, written, saved_lines >>

\* action_function(editor_state) raises for this key: the key is bound to
\* the action that raises.
action_raises(es, key_pressed) ==
    /\ key_pressed \in DOMAIN es.key_actions
    /\ es.key_actions[key_pressed] = "do_fail"

\* A key bound to the action that raises: nothing catches the exception in
\* handle_key_press or in run_editor_loop, and the program ends with the
\* editor state lost.
PressFailing ==
    /\ pc = "getch"
    /\ \E k \in DOMAIN editor_state.key_actions : action_raises(editor_state, k)
    /\ pc' = "crashed"
    /\ written' = NoWrite
    /\ UNCHANGED << editor_state, screen, saved_lines, plugins >>

\* The program with the plugin files it finds at startup, in a roomy
\* terminal that is not resized; plugins is maintained here.
InitPlugins ==
    /\ Start(RoomySizes)
    /\ \E files \in PluginDirs : plugins = [files |-> files, registered |-> << >>]

NextPlugins ==
    \/ LoadPluginFiles
    \/ PressKey /\ UNCHANGED << saved_lines, plugins >>
    \/ PressQuitDirty /\ UNCHANGED << saved_lines, plugins >>
    \/ PressBound /\ UNCHANGED << saved_lines, plugins >>
    \/ PressFailing

SpecPlugins == InitPlugins /\ [][NextPlugins]_vars

\* ------------------------------------------------- reconciliation alone
\* move_cursor_and_scroll as a function of the cursor, the viewport offsets
\* and the stored grid size: a buffer of up to MaxFileSize lines of up to
\* MaxFileSize characters, the cursor anywhere in it, the offsets anywhere
\* in it, and every grid up to one more than MaxFileSize each way, the
\* unusable ones (height <= 1, width 0) included.
ReconcileBuffers ==
    { [i \in 1..rows |-> [j \in 1..cols |-> CharA]] :
          rows \in 1..MaxFileSize, cols \in 0..MaxFileSize }

InitReconcile ==
    /\ \E lines \in ReconcileBuffers :
       \E row \in 0..(Len(lines) - 1), top \in 0..(Len(lines) - 1) :
       \E col \in 0..Len(lines[1]), left \in 0..Len(lines[1]) :
       \E height \in 0..(MaxFileSize + 1), width \in 0..(MaxFileSize + 1) :
          /\ editor_state = [NewState EXCEPT
                 !.lines = lines,
                 !.cursor_row = row, !.cursor_col = col,
                 !.top_screen_line = top, !.left_screen_col = left,
                 !.screen_height = height, !.screen_width = width]
          /\ screen = [height |-> height, width |-> width]
    /\ written = NoWrite
    /\ saved_lines = editor_state.lines
    /\ plugins = Unlisted
    /\ pc = "reconcile"

\* One call of move_cursor_and_scroll.
Reconcile ==
    /\ pc = "reconcile"
    /\ editor_state' = move_cursor_and_scroll(editor_state)
    /\ pc' = "reconciled"
    /\ UNCHANGED << screen, written, saved_lines, plugins >>

NextReconcile == Reconcile

SpecReconcile == InitReconcile /\ [][NextReconcile]_vars

\* ================================================================ claims
\* The inputs of one key event, as the environment offers them.
AllKeys == Keys \cup {KEY_RESIZE}
TypedFor(es, k) ==
    IF k \in DOMAIN es.key_actions THEN SaveAnswers
    ELSE IF k = CTRL_Q THEN QuitAnswers
    ELSE {None}
WritesFor(es, k) == IF k \in DOMAIN es.key_actions THEN WriteOutcomes ELSE {"ok"}

Waiting == pc = "getch"

\* ------------------------------------------------------------------- C1
CursorValid(es) ==
    /\ Len(es.lines) >= 1
    /\ 0 <= es.cursor_row
    /\ es.cursor_row < Len(es.lines)
    /\ 0 <= es.cursor_col
    /\ es.cursor_col <= Len(Line(es.lines, es.cursor_row))

\* C1: in every state reachable from startup by any sequence of key events,
\* the save action included, lines has at least one element,
\* 0 <= cursor_row < len(lines) and 0 <= cursor_col <= len(lines[cursor_row]).
C1_CursorAlwaysValid == CursorValid(editor_state)

\* C1's case: keys were handled and the cursor is on a later line, at its end.
C1_Witness ==
    /\ Waiting
    /\ CursorValid(editor_state)
    /\ editor_state.cursor_row > 0
    /\ editor_state.cursor_col = Len(Line(editor_state.lines, editor_state.cursor_row))
    /\ editor_state.cursor_col > 0
    /\ editor_state.is_dirty

\* ------------------------------------------------------------------- C2
\* The cursor is inside the window the stored grid size gives.
InWindow(es) ==
    /\ es.top_screen_line <= es.cursor_row
    /\ es.cursor_row < es.top_screen_line + (es.screen_height - 1)
    /\ es.left_screen_col <= es.cursor_col
    /\ es.cursor_col < es.left_screen_col + es.screen_width

\* The key moved the cursor or changed the lines.
MovedOrEdited(es, after) ==
    \/ after.cursor_row # es.cursor_row
    \/ after.cursor_col # es.cursor_col
    \/ after.lines # es.lines

AfterKeyInWindow(es) ==
    \A k \in AllKeys : \A typed \in TypedFor(es, k), write \in WritesFor(es, k) :
        LET r == handle_key_press(es, k, typed, write)
        IN  MovedOrEdited(es, r.state) => InWindow(r.state)

\* C2 as stated: after handle_key_press processes any key that moves the
\* cursor or changes the lines, the cursor is inside the visible window.
C2_Original == Waiting => AfterKeyInWindow(editor_state)

\* C2, amended: the same, when the stored grid is large enough to have a
\* text window (screen_height > 1 and screen_width > 0).
C2_InWindowWhenGridValid ==
    (Waiting /\ editor_state.screen_height > 1 /\ editor_state.screen_width > 0)
        => AfterKeyInWindow(editor_state)

\* C2's case: a key moved the cursor and the view was scrolled to follow it.
C2_Witness ==
    /\ Waiting
    /\ editor_state.screen_height > 1
    /\ editor_state.top_screen_line > 0
    /\ editor_state.left_screen_col > 0
    /\ InWindow(editor_state)

\* ------------------------------------------------------------------- C3
\* C3 as stated: is_dirty is true if and only if the lines differ from the
\* lines as of the last successful load or save.
C3_Original == editor_state.is_dirty <=> (editor_state.lines # saved_lines)

\* C3, amended: if the lines differ from the lines as of the last
\* successful load or save then is_dirty is true.
C3_DiffersImpliesDirty == (editor_state.lines # saved_lines) => editor_state.is_dirty

\* C3's case: a save succeeded, and the lines were edited after it.
C3_Witness ==
    /\ editor_state.status_message.text = "Saved lines to"
    /\ editor_state.lines # saved_lines
    /\ editor_state.is_dirty

\* ------------------------------------------------------------------- C4
\* C4: for every key code that has a binding in key_actions,
\* handle_key_press invokes exactly the bound action (its state and its
\* write are the action's), applies none of the built-in effects of the key
\* (lines and cursor are as before, also for an arrow key, an editing key
\* or the quit key), then runs viewport reconciliation and returns continue.
C4_BoundKeyRunsOnlyItsAction ==
    Waiting =>
        \A k \in DOMAIN editor_state.key_actions :
            \A typed \in SaveAnswers, write \in WriteOutcomes :
                LET r == handle_key_press(editor_state, k, typed, write)
                    a == do_save_file(editor_state, typed, write)
                IN  /\ editor_state.key_actions[k] = "do_save_file"
                    /\ r.state = move_cursor_and_scroll(a.state)
                    /\ r.written = a.written
                    /\ r.state.lines = editor_state.lines
                    /\ r.state.cursor_row = editor_state.cursor_row
                    /\ r.state.cursor_col = editor_state.cursor_col
                    /\ r.result = TRUE

\* C4's case: the quit key, an arrow key and an editing key are bound to the
\* save action, the cursor is below the first line of a changed buffer, and
\* a bound key was pressed: its save was cancelled at the prompt.
C4_Witness ==
    /\ Waiting
    /\ ShadowKeys \subseteq DOMAIN editor_state.key_actions
    /\ editor_state.cursor_row > 0
    /\ editor_state.is_dirty
    /\ editor_state.status_message = PlainMsg("Save cancelled.")

\* ------------------------------------------------------------------- C5
\* An affirmative answer to the confirmation: y or Y.
Affirmative(answer) == answer \in { << 121 >>, << 89 >> }

\* C5: handle_key_press returns stop if and only if the key is the quit key
\* (17), the key is not bound by an extension, and either is_dirty is false
\* or the confirmation prompt was answered affirmatively; every other key
\* event in every state returns continue.
C5_StopOnlyOnQuit ==
    Waiting =>
        \A k \in AllKeys :
            \A typed \in TypedFor(editor_state, k), write \in WritesFor(editor_state, k) :
                LET r == handle_key_press(editor_state, k, typed, write)
                    answer == ask_user_for_input(editor_state, QuitPromptLen, typed)
                IN  (r.result = FALSE) <=>
                        /\ k = CTRL_Q
                        /\ k \notin DOMAIN editor_state.key_actions
                        /\ (~editor_state.is_dirty \/ Affirmative(answer))

\* C5's case: the loop has stopped with a changed buffer, so the
\* confirmation was answered affirmatively.
C5_Witness ==
    /\ pc = "stopped"
    /\ editor_state.is_dirty
    /\ CTRL_Q \notin DOMAIN editor_state.key_actions

\* ------------------------------------------------------------------- C6
\* C6: when the quit key is pressed on a dirty buffer and the confirmation
\* is declined (any answer other than affirmative, the empty and the
\* cancelled one included), the editor stays running, status_message
\* becomes "Quit cancelled.", and lines, cursor, is_dirty and filename are
\* exactly as before the key press.
C6_DeclinedQuitChangesNothing ==
    (Waiting /\ editor_state.is_dirty /\ CTRL_Q \notin DOMAIN editor_state.key_actions) =>
        \A typed \in QuitAnswers :
            LET r == handle_key_press(editor_state, CTRL_Q, typed, "ok")
                answer == ask_user_for_input(editor_state, QuitPromptLen, typed)
            IN  ~Affirmative(answer) =>
                    /\ r.result = TRUE
                    /\ r.state.status_message = PlainMsg("Quit cancelled.")
                    /\ r.state.lines = editor_state.lines
                    /\ r.state.cursor_row = editor_state.cursor_row
                    /\ r.state.cursor_col = editor_state.cursor_col
                    /\ r.state.is_dirty = editor_state.is_dirty
                    /\ r.state.filename = editor_state.filename
                    /\ r.written = NoWrite

\* C6's case: the quit was declined on a changed buffer of two lines.
C6_Witness ==
    /\ Waiting
    /\ editor_state.status_message = PlainMsg("Quit cancelled.")
    /\ editor_state.is_dirty
    /\ Len(editor_state.lines) > 1

\* ---------------------------------------------------------- C7 to C10
SaveBound(es) ==
    /\ ctrl_s_key_code \in DOMAIN es.key_actions
    /\ es.key_actions[ctrl_s_key_code] = "do_save_file"

\* The name read at "Save As: ", blanks stripped; None if none was read.
NameSupplied(es, typed) ==
    LET answer == ask_user_for_input(es, SaveAsPromptLen, typed)
    IN  IF answer = None THEN None ELSE strip(answer)

\* The save gets as far as writing: the session has a file name, or a
\* non-blank name that is no directory is read at the prompt.
WriteAttempted(es, typed) ==
    \/ ~Falsy(es.filename)
    \/ /\ NameSupplied(es, typed) # None
       /\ NameSupplied(es, typed) # << >>
       /\ ~isdir(NameSupplied(es, typed))

\* C7: when the save action fails to write the file, lines and is_dirty are
\* exactly as before the save was invoked, the status message reports the
\* error, and the editor keeps running.
C7_FailedWriteKeepsBuffer ==
    (Waiting /\ SaveBound(editor_state)) =>
        \A typed \in SaveAnswers :
            WriteAttempted(editor_state, typed) =>
                LET r == handle_key_press(editor_state, ctrl_s_key_code, typed, "IOError")
                IN  /\ r.result = TRUE
                    /\ r.state.lines = editor_state.lines
                    /\ r.state.is_dirty = editor_state.is_dirty
                    /\ r.state.status_message.text = "Error saving! Could not write to file"
                    /\ r.written = NoWrite

\* C7's case: a write failed on a changed buffer of two lines, which is
\* still marked changed.
C7_Witness ==
    /\ Waiting
    /\ editor_state.status_message.text = "Error saving! Could not write to file"
    /\ editor_state.is_dirty
    /\ Len(editor_state.lines) > 1

\* C8: when a save that started with no file name (the name was read at the
\* Save As prompt) fails while writing, the session's filename is left as it
\* was before the save (absent), so that the next save prompts again.
C8_FailedSaveAsKeepsNoName ==
    (Waiting /\ SaveBound(editor_state) /\ Falsy(editor_state.filename)) =>
        \A typed \in SaveAnswers :
            WriteAttempted(editor_state, typed) =>
                LET r == handle_key_press(editor_state, ctrl_s_key_code, typed, "IOError")
                IN  r.state.filename = editor_state.filename

\* The start of line i (from 1) in the text that holds each of the lines
\* followed by one newline.
RECURSIVE LineStart(_, _)
LineStart(ls, i) ==
    IF i = 1 THEN 0 ELSE LineStart(ls, i - 1) + Len(ls[i - 1]) + 1

\* content is every line of ls in order, each followed by one newline.
EachLineThenNewline(content, ls) ==
    /\ Len(content) = LineStart(ls, Len(ls) + 1)
    /\ \A i \in 1..Len(ls) :
          /\ \A j \in 1..Len(ls[i]) : content[LineStart(ls, i) + j] = ls[i][j]
          /\ content[LineStart(ls, i) + Len(ls[i]) + 1] = LF

\* C9: pressing the save-bound key (19) with no prior filename and a
\* non-blank name supplied at the prompt, when the write succeeds, results
\* in: the file of that (stripped) name containing every buffer line in
\* order each followed by one newline, filename set to that name, is_dirty
\* false, and lines and cursor unchanged.
C9_SaveAsWritesTheBuffer ==
    (Waiting /\ Falsy(editor_state.filename)) =>
        /\ SaveBound(editor_state)
        /\ \A typed \in SaveAnswers :
              (WriteAttempted(editor_state, typed)) =>
                  LET r == handle_key_press(editor_state, ctrl_s_key_code, typed, "ok")
                      name == NameSupplied(editor_state, typed)
                  IN  /\ r.result = TRUE
                      /\ r.written.name = name
                      /\ EachLineThenNewline(r.written.content, editor_state.lines)
                      /\ r.state.filename = name
                      /\ r.state.is_dirty = FALSE
                      /\ r.state.lines = editor_state.lines
                      /\ r.state.cursor_row = editor_state.cursor_row
                      /\ r.state.cursor_col = editor_state.cursor_col

\* C9's case: the editor has no file name and two changed lines, and the
\* save key with " f" typed at the prompt writes them to f.
C9_Witness ==
    /\ Waiting
    /\ Falsy(editor_state.filename)
    /\ editor_state.is_dirty
    /\ Len(editor_state.lines) > 1
    /\ editor_state.cursor_row > 0
    /\ LET r == handle_key_press(editor_state, ctrl_s_key_code,
                                 << SPACE >> \o NameF, "ok")
       IN  /\ r.written.name = NameF
           /\ Len(r.written.content) = MaxFileSize
           /\ r.state.filename = NameF
           /\ ~r.state.is_dirty

\* C10: over any run after startup, a transition of is_dirty from true to
\* false happens only in a save invocation whose write succeeded (the turn
\* wrote the lines to the session's file and reports it); no built-in key,
\* no cancelled save, no save rejected for a directory name and no failed
\* write clears is_dirty.
C10_OnlySavedWriteClearsDirty ==
    [][(editor_state.is_dirty /\ ~editor_state'.is_dirty) =>
          /\ written' # NoWrite
          /\ written'.name = editor_state'.filename
          /\ EachLineThenNewline(written'.content, editor_state.lines)
          /\ editor_state'.status_message.text = "Saved lines to"
          /\ editor_state'.lines = editor_state.lines]_vars

\* C10's case: the lines were changed and then saved: is_dirty went from
\* true to false in a turn that wrote the file.
C10_Witness ==
    /\ Waiting
    /\ ~editor_state.is_dirty
    /\ written # NoWrite
    /\ editor_state.lines # saved_lines
    /\ editor_state.filename # None

\* ------------------------------------------------------------------ C11
NoLineBreaks(ls) ==
    \A i \in 1..Len(ls) : \A j \in 1..Len(ls[i]) : ls[i][j] \notin {CR, LF}

\* The disk once the write w is done, as a later startup finds it.
DiskAfter(w) == [n \in {w.name} |-> w.content]

\* The editor started on the file the write w made.
LoadedAfter(w) == setup_editor_state(w.name, DiskAfter(w), FALSE)

\* C11: round trip: for every non-empty sequence of lines containing no CR
\* or LF, saving the lines to a path and then loading that same path yields
\* exactly the same sequence of lines (same count, order and content, empty
\* lines and a trailing empty line included).
C11_SaveThenLoadRoundTrip ==
    (/\ Waiting
     /\ SaveBound(editor_state)
     /\ Len(editor_state.lines) >= 1
     /\ NoLineBreaks(editor_state.lines)) =>
        \A typed \in SaveAnswers :
            LET r == handle_key_press(editor_state, ctrl_s_key_code, typed, "ok")
            IN  r.written # NoWrite =>
                    /\ LoadedAfter(r.written).lines = editor_state.lines
                    /\ LoadedAfter(r.written).filename = r.written.name
                    /\ ~LoadedAfter(r.written).is_dirty

\* C11's case: a first line with text and an empty last line were typed;
\* saved to f and loaded from f they are the same two lines.
C11_Witness ==
    /\ Waiting
    /\ editor_state.is_dirty
    /\ Len(editor_state.lines) = 2
    /\ editor_state.lines[1] # << >>
    /\ editor_state.lines[2] = << >>
    /\ LET r == handle_key_press(editor_state, ctrl_s_key_code, NameF, "ok")
       IN  /\ r.written.name = NameF
           /\ LoadedAfter(r.written).lines = editor_state.lines

\* ---------------------------------------------------------- C12 to C19
\* handle_key_press for a key that leads to no prompt and to no write.
Pressed(es, k) == handle_key_press(es, k, None, "ok")

\* The first n characters of s, and s without them.
Prefix(s, n) == SubSeq(s, 1, n)
Suffix(s, n) == SubSeq(s, n + 1, Len(s))

\* The lines of before with indexes (from 1) up to keep are the same in
\* after, and those from index from on are in after shift places further.
LinesKept(before, after, keep, from, shift) ==
    /\ \A i \in 1..keep : after[i] = before[i]
    /\ \A i \in from..Len(before) : after[i + shift] = before[i]

\* Enter at cursor (r, c) of es gives after.
EnterSplits(es, after) ==
    LET r == es.cursor_row
        c == es.cursor_col
    IN  /\ Len(after.lines) = Len(es.lines) + 1
        /\ after.lines[r + 1] = Prefix(es.lines[r + 1], c)
        /\ after.lines[r + 2] = Suffix(es.lines[r + 1], c)
        /\ LinesKept(es.lines, after.lines, r, r + 2, 1)
        /\ after.cursor_row = r + 1
        /\ after.cursor_col = 0
        /\ after.is_dirty

\* C12: Enter at cursor (r, c), for every valid cursor position, replaces
\* line r by its first c characters, inserts the remaining characters as a
\* new line at index r+1 (all other lines keep their content and order, the
\* line count grows by one), moves the cursor to (r+1, 0) and sets is_dirty.
C12_EnterSplitsTheLine ==
    Waiting =>
        \A k \in EnterKeys \ DOMAIN editor_state.key_actions :
            /\ Pressed(editor_state, k).result = TRUE
            /\ EnterSplits(editor_state, Pressed(editor_state, k).state)

\* C12's case: the cursor is in the middle of "aa" in an unchanged buffer,
\* and Enter makes the lines "a" and "a" with the cursor at (1, 0).
C12_Witness ==
    /\ Waiting
    /\ editor_state.lines = << << CharA, CharA >> >>
    /\ editor_state.cursor_col = 1
    /\ ~editor_state.is_dirty
    /\ LET after == Pressed(editor_state, KEY_ENTER).state
       IN  /\ after.lines = << << CharA >>, << CharA >> >>
           /\ after.cursor_row = 1
           /\ after.cursor_col = 0
           /\ after.is_dirty

\* Backspace at cursor (r, c) of es gives after.
BackspaceDeletes(es, after) ==
    LET r == es.cursor_row
        c == es.cursor_col
    IN  /\ c > 0 =>
              /\ Len(after.lines) = Len(es.lines)
              /\ after.lines[r + 1] =
                     Prefix(es.lines[r + 1], c - 1) \o Suffix(es.lines[r + 1], c)
              /\ LinesKept(es.lines, after.lines, r, r + 2, 0)
              /\ after.cursor_row = r
              /\ after.cursor_col = c - 1
              /\ after.is_dirty
        /\ (c = 0 /\ r > 0) =>
              /\ Len(after.lines) = Len(es.lines) - 1
              /\ after.lines[r] = es.lines[r] \o es.lines[r + 1]
              /\ LinesKept(es.lines, after.lines, r - 1, r + 2, -1)
              /\ after.cursor_row = r - 1
              /\ after.cursor_col = Len(es.lines[r])
              /\ after.is_dirty

\* C13: Backspace at cursor (r, c): if c > 0 it removes the character at
\* index c-1 of line r and moves the cursor to (r, c-1); if c = 0 and r > 0
\* it replaces lines r-1 and r by their concatenation (one line fewer) and
\* places the cursor at (r-1, old length of line r-1); in both cases
\* is_dirty becomes true and no other line changes.
C13_BackspaceDeletesOrJoins ==
    Waiting =>
        \A k \in BackspaceKeys \ DOMAIN editor_state.key_actions :
            /\ Pressed(editor_state, k).result = TRUE
            /\ BackspaceDeletes(editor_state, Pressed(editor_state, k).state)

\* C13's case: the cursor is at the start of the second line "a", below an
\* empty line, and Backspace joins them with the cursor at (0, 0).
C13_Witness ==
    /\ Waiting
    /\ editor_state.lines = << << >>, << CharA >> >>
    /\ editor_state.cursor_row = 1
    /\ editor_state.cursor_col = 0
    /\ LET after == Pressed(editor_state, KEY_BACKSPACE).state
       IN  /\ after.lines = << << CharA >> >>
           /\ after.cursor_row = 0
           /\ after.cursor_col = 0
           /\ after.is_dirty

\* Neither the lines, the cursor nor is_dirty differ between es and after.
BufferUntouched(es, after) ==
    /\ after.lines = es.lines
    /\ after.cursor_row = es.cursor_row
    /\ after.cursor_col = es.cursor_col
    /\ after.is_dirty = es.is_dirty

AtBufferStart(es) == es.cursor_row = 0 /\ es.cursor_col = 0
AtBufferEnd(es) ==
    /\ es.cursor_row = Len(es.lines) - 1
    /\ es.cursor_col = Len(es.lines[Len(es.lines)])

\* The editing keys: the deletion keys, Enter and some printable characters.
EditingKeys == BackspaceKeys \cup {KEY_DC} \cup EnterKeys \cup {SPACE, CharA, 126}

\* C14: a deletion key that changes no line leaves is_dirty untouched:
\* Backspace at cursor (0,0) and Delete at the end of the last line change
\* neither lines, cursor nor is_dirty; conversely every editing key that
\* does change the lines sets is_dirty to true.
C14_DirtyOnlyWhenLinesChange ==
    Waiting =>
        /\ \A k \in BackspaceKeys \ DOMAIN editor_state.key_actions :
              AtBufferStart(editor_state) =>
                  BufferUntouched(editor_state, Pressed(editor_state, k).state)
        /\ \A k \in {KEY_DC} \ DOMAIN editor_state.key_actions :
              AtBufferEnd(editor_state) =>
                  BufferUntouched(editor_state, Pressed(editor_state, k).state)
        /\ \A k \in EditingKeys \ DOMAIN editor_state.key_actions :
              Pressed(editor_state, k).state.lines # editor_state.lines =>
                  Pressed(editor_state, k).state.is_dirty

\* C14's case: the cursor is at the end of the only line "a" of an
\* unchanged buffer: Delete changes nothing and the buffer stays clean,
\* Backspace removes the "a" and the buffer is dirty.
C14_Witness ==
    /\ Waiting
    /\ ~editor_state.is_dirty
    /\ editor_state.lines = << << CharA >> >>
    /\ editor_state.cursor_col = 1
    /\ BufferUntouched(editor_state, Pressed(editor_state, KEY_DC).state)
    /\ ~Pressed(editor_state, KEY_DC).state.is_dirty
    /\ Pressed(editor_state, KEY_BACKSPACE).state.lines = << << >> >>
    /\ Pressed(editor_state, KEY_BACKSPACE).state.is_dirty

\* Delete at cursor (r, c) of es gives after.
DeleteRemoves(es, after) ==
    LET r == es.cursor_row
        c == es.cursor_col
    IN  /\ c < Len(es.lines[r + 1]) =>
              /\ Len(after.lines) = Len(es.lines)
              /\ after.lines[r + 1] =
                     Prefix(es.lines[r + 1], c) \o Suffix(es.lines[r + 1], c + 1)
              /\ LinesKept(es.lines, after.lines, r, r + 2, 0)
              /\ after.cursor_row = r
              /\ after.cursor_col = c
              /\ after.is_dirty
        /\ (c = Len(es.lines[r + 1]) /\ r + 1 < Len(es.lines)) =>
              /\ Len(after.lines) = Len(es.lines) - 1
              /\ after.lines[r + 1] = es.lines[r + 1] \o es.lines[r + 2]
              /\ LinesKept(es.lines, after.lines, r, r + 3, -1)
              /\ after.cursor_row = r
              /\ after.cursor_col = c
              /\ after.is_dirty

\* C15: Delete at cursor (r, c): if c < len(line r) it removes the character
\* at index c of line r; if c = len(line r) and r is not the last line it
\* replaces lines r and r+1 by their concatenation (one line fewer); in both
\* cases the cursor (r, c) is unchanged, is_dirty becomes true and no other
\* line changes.
C15_DeleteRemovesOrJoins ==
    (Waiting /\ KEY_DC \notin DOMAIN editor_state.key_actions) =>
        /\ Pressed(editor_state, KEY_DC).result = TRUE
        /\ DeleteRemoves(editor_state, Pressed(editor_state, KEY_DC).state)

\* C15's case: the cursor is at the end of the first line "a" of an
\* unchanged buffer whose second line is empty, and Delete joins the two.
C15_Witness ==
    /\ Waiting
    /\ ~editor_state.is_dirty
    /\ editor_state.lines = << << CharA >>, << >> >>
    /\ editor_state.cursor_row = 0
    /\ editor_state.cursor_col = 1
    /\ LET after == Pressed(editor_state, KEY_DC).state
       IN  /\ after.lines = << << CharA >> >>
           /\ after.cursor_row = 0
           /\ after.cursor_col = 1
           /\ after.is_dirty

\* The cursor of after is at (r, c).
CursorAt(after, r, c) == after.cursor_row = r /\ after.cursor_col = c

\* Left at cursor (r, c) of es gives after.
LeftMoves(es, after) ==
    LET r == es.cursor_row
        c == es.cursor_col
    IN  IF c = 0 /\ r > 0 THEN CursorAt(after, r - 1, Len(es.lines[r]))
        ELSE IF c = 0 THEN CursorAt(after, 0, 0)
        ELSE CursorAt(after, r, c - 1)

\* Right at cursor (r, c) of es gives after.
RightMoves(es, after) ==
    LET r == es.cursor_row
        c == es.cursor_col
    IN  IF c = Len(es.lines[r + 1]) /\ r + 1 < Len(es.lines)
        THEN CursorAt(after, r + 1, 0)
        ELSE IF c = Len(es.lines[r + 1]) THEN CursorAt(after, r, c)
        ELSE CursorAt(after, r, c + 1)

\* C16: horizontal movement: Left at column 0 of a row r > 0 moves the
\* cursor to (r-1, len(line r-1)); Right at the end of a row r that is not
\* the last moves the cursor to (r+1, 0); Left at (0,0) and Right at the end
\* of the last line leave the cursor unchanged; otherwise the column changes
\* by exactly one and the row is unchanged.
C16_LeftAndRightWrap ==
    Waiting =>
        /\ KEY_LEFT \notin DOMAIN editor_state.key_actions =>
              /\ Pressed(editor_state, KEY_LEFT).result = TRUE
              /\ LeftMoves(editor_state, Pressed(editor_state, KEY_LEFT).state)
        /\ KEY_RIGHT \notin DOMAIN editor_state.key_actions =>
              /\ Pressed(editor_state, KEY_RIGHT).result = TRUE
              /\ RightMoves(editor_state, Pressed(editor_state, KEY_RIGHT).state)

\* C16's case: the cursor is at the end of the first line "a", above an
\* empty second line: Right wraps to (1, 0), and Left from there wraps back
\* to (0, 1).
C16_Witness ==
    /\ Waiting
    /\ editor_state.lines = << << CharA >>, << >> >>
    /\ editor_state.cursor_row = 0
    /\ editor_state.cursor_col = 1
    /\ LET right == Pressed(editor_state, KEY_RIGHT).state
       IN  /\ CursorAt(right, 1, 0)
           /\ CursorAt(Pressed(right, KEY_LEFT).state, 0, 1)

\* The smaller of two numbers.
Least(a, b) == IF a <= b THEN a ELSE b

\* Up at cursor (r, c) of es gives after.
UpMoves(es, after) ==
    LET r == es.cursor_row
        c == es.cursor_col
    IN  IF r > 0 THEN CursorAt(after, r - 1, Least(c, Len(es.lines[r])))
        ELSE CursorAt(after, r, c)

\* Down at cursor (r, c) of es gives after.
DownMoves(es, after) ==
    LET r == es.cursor_row
        c == es.cursor_col
    IN  IF r + 1 < Len(es.lines)
        THEN CursorAt(after, r + 1, Least(c, Len(es.lines[r + 2])))
        ELSE CursorAt(after, r, c)

\* C17: vertical movement: Up (when row > 0) and Down (when row < last row)
\* change the row by exactly one and set the column to min(old column,
\* length of the new line); Up on the first row and Down on the last row
\* change nothing; the resulting row is never out of bounds and the column
\* never exceeds the new line's length.
C17_UpAndDownSnapTheColumn ==
    Waiting =>
        \A k \in {KEY_UP, KEY_DOWN} \ DOMAIN editor_state.key_actions :
            LET after == Pressed(editor_state, k).state
            IN  /\ Pressed(editor_state, k).result = TRUE
                /\ k = KEY_UP => UpMoves(editor_state, after)
                /\ k = KEY_DOWN => DownMoves(editor_state, after)
                /\ after.lines = editor_state.lines
                /\ 0 <= after.cursor_row
                /\ after.cursor_row < Len(after.lines)
                /\ after.cursor_col <= Len(after.lines[after.cursor_row + 1])

\* C17's case: the cursor is at the end of the first line "a", above an
\* empty second line: Down moves it to (1, 0), the column snapped to the
\* empty line, and Up from there to (0, 0).
C17_Witness ==
    /\ Waiting
    /\ editor_state.lines = << << CharA >>, << >> >>
    /\ editor_state.cursor_row = 0
    /\ editor_state.cursor_col = 1
    /\ editor_state.is_dirty
    /\ LET down == Pressed(editor_state, KEY_DOWN).state
       IN  /\ CursorAt(down, 1, 0)
           /\ CursorAt(Pressed(down, KEY_UP).state, 0, 0)

\* The larger of two numbers.
Greatest(a, b) == IF a >= b THEN a ELSE b

\* displayHeight: the rows of the grid above the status row.
DisplayHeight(es) == es.screen_height - 1

\* Page Up at cursor (r, c) of es sets the row and the column of after.
PageUpCursor(es, after) ==
    LET new_row == Greatest(0, es.cursor_row - DisplayHeight(es))
    IN  CursorAt(after, new_row, Least(es.cursor_col, Len(es.lines[new_row + 1])))

\* Page Down at cursor (r, c) of es sets the row and the column of after.
PageDownCursor(es, after) ==
    LET new_row == Least(Len(es.lines) - 1, es.cursor_row + DisplayHeight(es))
    IN  CursorAt(after, new_row, Least(es.cursor_col, Len(es.lines[new_row + 1])))

\* The top line of after is the top line of es one page up, or one page
\* down, clamped to the buffer.
PageUpTop(es, after) ==
    after.top_screen_line = Greatest(0, es.top_screen_line - DisplayHeight(es))
PageDownTop(es, after) ==
    after.top_screen_line =
        Least(Greatest(0, Len(es.lines) - DisplayHeight(es)),
              es.top_screen_line + DisplayHeight(es))

PageKeysAsClaimed(es) ==
    /\ KEY_PPAGE \notin DOMAIN es.key_actions =>
          LET after == Pressed(es, KEY_PPAGE).state
          IN  PageUpCursor(es, after) /\ PageUpTop(es, after) /\ InWindow(after)
    /\ KEY_NPAGE \notin DOMAIN es.key_actions =>
          LET after == Pressed(es, KEY_NPAGE).state
          IN  PageDownCursor(es, after) /\ PageDownTop(es, after) /\ InWindow(after)

\* C18 as stated: Page Up sets cursor_row to max(0, row - displayHeight) and
\* Page Down sets it to min(len(lines) - 1, row + displayHeight); the top
\* line moves by one page in the same direction clamped to the buffer, the
\* column is clamped to the new line's length, and after the key the cursor
\* is inside the visible window.
C18_Original == Waiting => PageKeysAsClaimed(editor_state)

\* C18, amended: when the stored grid has a text window (screen_height > 1
\* and screen_width > 0), Page Up and Page Down set the row and the column
\* as stated and leave the cursor inside the visible window; the top line
\* is the one stated when the cursor was inside the window before the key
\* (otherwise the reconciliation that follows moves it further).
C18_PageKeysWhenGridValid ==
    (Waiting /\ editor_state.screen_height > 1 /\ editor_state.screen_width > 0) =>
        /\ KEY_PPAGE \notin DOMAIN editor_state.key_actions =>
              LET after == Pressed(editor_state, KEY_PPAGE).state
              IN  /\ PageUpCursor(editor_state, after)
                  /\ InWindow(after)
                  /\ InWindow(editor_state) => PageUpTop(editor_state, after)
        /\ KEY_NPAGE \notin DOMAIN editor_state.key_actions =>
              LET after == Pressed(editor_state, KEY_NPAGE).state
              IN  /\ PageDownCursor(editor_state, after)
                  /\ InWindow(after)
                  /\ InWindow(editor_state) => PageDownTop(editor_state, after)

\* C18's case: three lines in a grid with one text row, the cursor on the
\* last line and inside the window: Page Up moves the cursor and the top
\* line to the second line, and Page Down from there moves both back.
C18_Witness ==
    /\ Waiting
    /\ DisplayHeight(editor_state) = 1
    /\ Len(editor_state.lines) = 3
    /\ editor_state.cursor_row = 2
    /\ InWindow(editor_state)
    /\ LET up == Pressed(editor_state, KEY_PPAGE).state
       IN  /\ CursorAt(up, 1, 0)
           /\ up.top_screen_line = 1
           /\ CursorAt(Pressed(up, KEY_NPAGE).state, 2, 0)
           /\ Pressed(up, KEY_NPAGE).state.top_screen_line = 2

\* The key codes of the printable characters.
PrintableKeys == 32..126

\* The character k typed at cursor (r, c) of es gives after.
CharInserted(es, k, after) ==
    LET r == es.cursor_row
        c == es.cursor_col
    IN  /\ Len(after.lines) = Len(es.lines)
        /\ after.lines[r + 1] =
               Prefix(es.lines[r + 1], c) \o << k >> \o Suffix(es.lines[r + 1], c)
        /\ Len(after.lines[r + 1]) = Len(es.lines[r + 1]) + 1
        /\ LinesKept(es.lines, after.lines, r, r + 2, 0)
        /\ CursorAt(after, r, c + 1)
        /\ after.is_dirty

\* C19: for every key code from 32 to 126 that is not bound by an
\* extension, and every valid cursor (r, c), handle_key_press inserts
\* exactly that character at index c of line r (the line grows by one, the
\* line count and all other lines are unchanged), advances the column to
\* c+1, keeps the row, and sets is_dirty to true.
C19_PrintableKeyInserts ==
    Waiting =>
        \A k \in PrintableKeys \ DOMAIN editor_state.key_actions :
            /\ Pressed(editor_state, k).result = TRUE
            /\ CharInserted(editor_state, k, Pressed(editor_state, k).state)

\* C19's case: the cursor is between the two characters of "aa" in an
\* unchanged buffer, and the key 98 makes the line "aba" with the cursor
\* after the b.
C19_Witness ==
    /\ Waiting
    /\ ~editor_state.is_dirty
    /\ editor_state.lines = << << CharA, CharA >> >>
    /\ editor_state.cursor_col = 1
    /\ LET after == Pressed(editor_state, 98).state
       IN  /\ after.lines = << << CharA, 98, CharA >> >>
           /\ CursorAt(after, 0, 2)
           /\ after.is_dirty

\* ------------------------------------------------------------------ C20
\* The quit key with the confirmation answered by typed.
QuitPressed(es, typed) == handle_key_press(es, CTRL_Q, typed, "ok")

\* A prompt of es can be shown: the stored grid has room for it.
PromptShown(es) == es.screen_height > 1 /\ es.screen_width > 1

\* An interrupt signal while the prompt of key k waits: the prompt returns
\* None.
InterruptedInPrompt(es, k) == handle_key_press(es, k, None, "ok")

\* The keys of es that lead to a prompt: the quit key on a dirty buffer,
\* the save key when there is no file name.
PromptKeys(es) ==
    {k \in {CTRL_Q} : es.is_dirty}
    \cup {k \in {ctrl_s_key_code} : SaveBound(es) /\ Falsy(es.filename)}

\* C20 as stated: an interrupt signal received while waiting for the next
\* key, or while waiting inside a prompt, has the same outcome as pressing
\* the quit key (17) in that state: the same stop/continue decision and the
\* same resulting session state, the status message included.
C20_Original ==
    (Waiting /\ CTRL_Q \notin DOMAIN editor_state.key_actions) =>
        \A typed \in QuitAnswers :
            /\ interrupt_at_getch(editor_state, typed) = QuitPressed(editor_state, typed)
            /\ PromptShown(editor_state) =>
                  \A k \in PromptKeys(editor_state) :
                      InterruptedInPrompt(editor_state, k) = QuitPressed(editor_state, typed)

\* es and after have the same lines, cursor, is_dirty and filename.
SameBuffer(es, after) ==
    /\ BufferUntouched(es, after)
    /\ after.filename = es.filename

\* C20, amended: an interrupt signal while waiting for the next key gives
\* the same stop/continue decision as the quit key with the same answer, and
\* the same lines, cursor, is_dirty and filename; when it stops the session
\* state is the same, when it continues the interrupt leaves the session
\* state as it was, where the quit key shows "Quit cancelled." and
\* reconciles the viewport.  An interrupt signal inside a prompt cancels
\* that prompt: the editor keeps running and nothing is written.
C20_InterruptAsksLikeQuit ==
    (Waiting /\ CTRL_Q \notin DOMAIN editor_state.key_actions) =>
        /\ \A typed \in QuitAnswers :
              LET i == interrupt_at_getch(editor_state, typed)
                  q == QuitPressed(editor_state, typed)
              IN  /\ i.result = q.result
                  /\ i.written = q.written
                  /\ SameBuffer(i.state, q.state)
                  /\ i.result = FALSE => i.state = q.state
                  /\ i.result = TRUE =>
                        /\ i.state = editor_state
                        /\ q.state.status_message = PlainMsg("Quit cancelled.")
        /\ \A k \in PromptKeys(editor_state) :
              LET p == InterruptedInPrompt(editor_state, k)
              IN  /\ p.result = TRUE
                  /\ p.written = NoWrite
                  /\ SameBuffer(editor_state, p.state)
                  /\ PromptShown(editor_state) =>
                        p.state.status_message =
                            IF k = CTRL_Q THEN PlainMsg("Quit cancelled.")
                            ELSE PlainMsg("Save cancelled.")

\* C20's case: a changed buffer without a file name in a grid that shows
\* the prompts: an interrupt answered y stops like the quit key, one
\* answered n continues and leaves the status message, where the quit key
\* shows "Quit cancelled."; an interrupt inside the Save As prompt cancels
\* the save.
C20_Witness ==
    /\ Waiting
    /\ editor_state.is_dirty
    /\ Falsy(editor_state.filename)
    /\ PromptShown(editor_state)
    /\ editor_state.status_message # PlainMsg("Quit cancelled.")
    /\ interrupt_at_getch(editor_state, << 121 >>).result = FALSE
    /\ QuitPressed(editor_state, << 121 >>).result = FALSE
    /\ interrupt_at_getch(editor_state, << 110 >>).result = TRUE
    /\ interrupt_at_getch(editor_state, << 110 >>).state.status_message
           = editor_state.status_message
    /\ QuitPressed(editor_state, << 110 >>).state.status_message
           = PlainMsg("Quit cancelled.")
    /\ InterruptedInPrompt(editor_state, ctrl_s_key_code).state.status_message
           = PlainMsg("Save cancelled.")

\* ------------------------------------------------------------------ C21
\* C21: once the run loop has started, a failure inside a dispatch branch,
\* including an error raised by an extension's bound action when its key
\* fires, does not propagate out of handle_key_press and does not end the
\* run loop: the program is never ended by such a failure.
C21_FailureDoesNotEndTheLoop ==
    pc # "crashed"

\* ------------------------------------------------------------------ C22
\* The register() calls of the plugin files found, as the claim has them
\* once the loop waits for a key or has run: one call for each file found,
\* each completed, and the key of plugin_save bound.
AllRegisteredOnce ==
    /\ plugins.registered = plugins.files
    /\ \A m \in PluginNames :
          Cardinality({i \in DOMAIN plugins.registered : plugins.registered[i] = m})
              = Cardinality({i \in DOMAIN plugins.files : plugins.files[i] = m})
    /\ (\E i \in DOMAIN plugins.files : plugins.files[i] = "plugin_save")
          => ctrl_s_key_code \in DOMAIN editor_state.key_actions

\* No key has been handled: the session is as setup_editor_state left it.
NoKeyHandled ==
    /\ written = NoWrite
    /\ editor_state.lines = saved_lines
    /\ ~editor_state.is_dirty
    /\ editor_state.cursor_row = 0
    /\ editor_state.cursor_col = 0

\* C22: every discovered extension's register procedure is called exactly
\* once and all of them complete before the first key is read or
\* dispatched; if an extension's import or register raises, the process
\* exits, from the loading step only, and the run loop never handles a key.
C22_RegisterAllBeforeKeysOrExit ==
    /\ [](pc \in {"getch", "stopped", "crashed"} => AllRegisteredOnce)
    /\ [](pc \in {"plugins", "exited"} => NoKeyHandled)
    /\ [](pc = "plugins" => plugins.registered = << >>)
    /\ [](pc = "exited" => Len(plugins.registered) < Len(plugins.files))
    /\ [][pc # "exited" /\ (pc' = "exited" => pc = "plugins")]_vars

\* The second of two extensions failed to load after the first registered,
\* and the process has exited.
C22_Witness ==
    /\ pc = "exited"
    /\ Len(plugins.files) = 2
    /\ plugins.registered = << "plugin_save" >>

\* ------------------------------------------------------------------ C23
\* What the path given to load may be: the file name, with content or
\* missing (None), or the directory.
LoadPaths == {NameF, NameD}
LoadContents == InitialFiles \cup {None}

OneEmptyLine == << << >> >>

\* The session r that load, or setup with load, leaves for path, when the
\* file name holds content and reading it fails or not.
CleanLoad(r, path, content, read_fails) ==
    /\ CursorValid(r)
    /\ ~r.is_dirty
    /\ r.cursor_row = 0 /\ r.cursor_col = 0
    /\ r.top_screen_line = 0 /\ r.left_screen_col = 0
    /\ (path = NameF /\ content = None)
          => r.lines = OneEmptyLine /\ r.filename = path
    /\ path = NameD
          => /\ r.lines = OneEmptyLine
             /\ r.filename = None
             /\ r.status_message = Msg("Error: is a folder.", 0, path)
    /\ (path = NameF /\ content # None /\ read_fails)
          => /\ r.lines = OneEmptyLine
             /\ r.filename = None
             /\ r.status_message = Msg("Error loading", 0, path)
    /\ (path = NameF /\ content = << >> /\ ~read_fails)
          => r.lines = OneEmptyLine /\ r.filename = path

\* C23: load never fails and always leaves a valid clean session, from
\* any session it is applied to and as setup applies it: one empty line,
\* not dirty and filename = the path for a missing path; one empty line,
\* not dirty, filename absent and a status message describing the error for
\* a directory or a read error; one empty line for an existing empty file;
\* cursor and viewport at (0,0) in every case.
C23_LoadLeavesCleanSession ==
    \A path \in LoadPaths, content \in LoadContents, read_fails \in BOOLEAN :
        LET d == [n \in FileNames |-> content]
        IN  /\ CleanLoad(load_file_into_editor(editor_state, path, d, read_fails),
                         path, content, read_fails)
            /\ CleanLoad(setup_editor_state(path, d, read_fails),
                         path, content, read_fails)

\* A dirty session without a name and with the cursor moved, in which load
\* of a file whose reading fails leaves the error message.
C23_Witness ==
    /\ editor_state.is_dirty
    /\ editor_state.cursor_col > 0
    /\ editor_state.filename = None
    /\ editor_state.status_message.text # "Error loading"
    /\ load_file_into_editor(editor_state, NameF, [n \in FileNames |-> << CharA, LF >>], TRUE)
           .status_message = Msg("Error loading", 0, NameF)

\* ------------------------------------------------------------------ C24
\* C24: reconciliation is idempotent: for every cursor position, viewport
\* offset and grid size, move_cursor_and_scroll applied twice gives the
\* same top_screen_line and left_screen_col as applied once, both are
\* >= 0, and a session that has been reconciled is left as it is.
C24_ReconcileIdempotent ==
    LET once == move_cursor_and_scroll(editor_state)
        twice == move_cursor_and_scroll(once)
    IN  /\ twice.top_screen_line = once.top_screen_line
        /\ twice.left_screen_col = once.left_screen_col
        /\ once.top_screen_line >= 0
        /\ once.left_screen_col >= 0
        /\ pc = "reconciled" => once = editor_state

\* The cursor is more than a window below the viewport and left of it:
\* reconciliation scrolls down by more than the window, and scrolls left.
C24_Witness ==
    /\ pc = "reconcile"
    /\ editor_state.screen_height = 2
    /\ editor_state.cursor_row > editor_state.top_screen_line + 1
    /\ editor_state.cursor_col < editor_state.left_screen_col
    /\ move_cursor_and_scroll(editor_state).top_screen_line = editor_state.cursor_row
    /\ move_cursor_and_scroll(editor_state).left_screen_col = editor_state.cursor_col

\* ------------------------------------------------------------------ C25
\* C25: whenever the buffer is dirty, the status line the renderer draws
\* (it draws one when the window has at least two rows) is the status
\* message truncated to the grid width with the whole dirty marker " *" as
\* its suffix; when the buffer is clean no marker is drawn.
C25_DirtyMarkerDrawn ==
    LET bar == draw_status_bar(editor_state)
    IN  (Waiting /\ bar.drawn) =>
            /\ editor_state.is_dirty
                  => /\ bar.marker = MarkerLen
                     /\ bar.message + bar.marker <= editor_state.screen_width
            /\ ~editor_state.is_dirty => bar.marker = 0

\* ------------------------------------------------------------------ C26
\* Key codes no branch of handle_key_press tests for: Tab, Escape, the
\* control code below the space, the code above the printable range.
UnrecognizedKeys == {9, KEY_UNKNOWN, 31, 128}

\* The keys that neither edit nor quit.
PassiveKeys == MoveKeys \cup {KEY_RESIZE} \cup UnrecognizedKeys

\* C26: a key that no extension has bound and that is an arrow, Home, End,
\* Page Up, Page Down, the resize notification or an unrecognized key code
\* never changes lines, is_dirty or filename; the resize notification also
\* leaves the cursor unchanged; an unrecognized key leaves every session
\* field unchanged and returns continue.
C26_PassiveKeysKeepBuffer ==
    Waiting =>
        \A k \in PassiveKeys :
            k \notin DOMAIN editor_state.key_actions =>
                LET r == Pressed(editor_state, k)
                IN  /\ r.state.lines = editor_state.lines
                    /\ r.state.is_dirty = editor_state.is_dirty
                    /\ r.state.filename = editor_state.filename
                    /\ k = KEY_RESIZE => SameBuffer(editor_state, r.state)
                    /\ k \in UnrecognizedKeys
                          => r.state = editor_state /\ r.result

\* A clean named buffer with the cursor in a line, where Home moves the
\* cursor, Page Down moves cursor and viewport, and Tab does nothing,
\* while Up, which the second extension has bound, saves.
C26_Witness ==
    /\ Waiting
    /\ ~editor_state.is_dirty
    /\ editor_state.filename = NameF
    /\ editor_state.cursor_col > 0
    /\ KEY_UP \in DOMAIN editor_state.key_actions
    /\ Pressed(editor_state, KEY_UP).written # NoWrite
    /\ Pressed(editor_state, KEY_HOME).state.cursor_col = 0
    /\ Pressed(editor_state, KEY_NPAGE).state.top_screen_line
           > editor_state.top_screen_line
    /\ Pressed(editor_state, 9).state = editor_state

\* ------------------------------------------------------------------ C27
\* C27: at every draw of the screen that draws (the window has a text
\* row), the first draw after a resize notification included, the cursor
\* lies inside the visible window computed from the grid size that draw
\* has read, and the terminal's cursor is put where the logical cursor is,
\* not clamped away from it.
C27_DrawnCursorIsLogicalCursor ==
    (Waiting /\ draw_cursor(editor_state) # None) =>
        /\ InWindow(editor_state)
        /\ draw_cursor(editor_state)
               = << editor_state.cursor_row - editor_state.top_screen_line,
                    editor_state.cursor_col - editor_state.left_screen_col >>

\* ------------------------------------------------------------------ C28
\* C28: whenever the quit key is pressed on a dirty buffer, whatever the
\* stored grid size, the confirmation prompt is presented and the answer
\* the user types is read before the quit is cancelled: an answer typed is
\* an answer the prompt returns, and the answer y stops the editor, so that
\* the running editor can always be brought to a stop.
C28_QuitPromptAlwaysPresented ==
    (Waiting /\ editor_state.is_dirty /\ CTRL_Q \notin DOMAIN editor_state.key_actions) =>
        /\ PromptShown(editor_state)
        /\ \A typed \in QuitAnswers \ {None} :
              ask_user_for_input(editor_state, QuitPromptLen, typed) # None
        /\ QuitPressed(editor_state, << 121 >>).result = FALSE

\* With the grid kept (SpecExtensions has no resize), a dirty buffer without
\* a name in a window too small for a prompt never reaches the stop: the
\* quit key, the save key and the interrupt are all refused their prompt.
NoStopWithoutPrompt ==
    []((Waiting /\ editor_state.is_dirty /\ Falsy(editor_state.filename)
            /\ ~PromptShown(editor_state))
         => [](pc # "stopped"))

====
